---------------------------- MODULE Spec2Model ----------------------------
(***************************************************************************)
(* PV / battery sizing script (BatterySizing_Sdewes.py).                   *)
(*                                                                         *)
(* The script reads an hourly demand and irradiance profile, builds a      *)
(* linear program with cvxpy (decision variables P_imp, P_ch, P_disch,     *)
(* E_b, C_b, Area_PV and the list `constraints`), solves it once, reports  *)
(* cost / LCOE / self-sufficiency when the status is optimal, draws the    *)
(* input plots and finally reads every variable's .value for the result    *)
(* plot.                                                                   *)
(*                                                                         *)
(* Real numbers are exact rationals <<numerator, denominator>> in lowest   *)
(* terms with a positive denominator.  Python arrays are 0-based, the      *)
(* sequences here are 1-based: Python's X[t] is X[t + 1] below, so E_b has *)
(* indices 1 .. hours_in_year + 1 and E_b[hours_in_year + 1] is the        *)
(* closing value.                                                          *)
(*                                                                         *)
(* The external solver is modelled by its contract over a finite lattice   *)
(* of points (Candidates): it ends "optimal" with a cost-minimal point     *)
(* among those the constraint list accepts, or "infeasible" when the       *)
(* constraint list accepts no point.                                       *)
(***************************************************************************)
EXTENDS Integers, Sequences, FiniteSets

VARIABLES
    pc,             \* position in the script
    P_imp_max,      \* design constraint, line 35
    Area_PV_max,    \* design constraint, line 36
    C_b_max,        \* design constraint, line 37
    C_b_min,        \* design constraint, line 38
    c_el,           \* import price, line 41
    P_dem,          \* hourly demand read from the CSV, line 45
    G_irradiance,   \* hourly irradiance read from the CSV, line 46
    status,         \* problem.status
    value,          \* the variables' .value (NoValue when the solver set none)
    cost_value,     \* cost.value
    LCOE,           \* line 103
    self_sufficiency, \* line 109
    power_supplied, \* line 152
    error,          \* the uncaught exception that ended the script, if any
    solver_calls,   \* how many times problem.solve ran in this run
    previous        \* the outcome of the previous run of the script, if any

vars == <<pc, P_imp_max, Area_PV_max, C_b_max, C_b_min, c_el, P_dem,
          G_irradiance, status, value, cost_value, LCOE,
          self_sufficiency, power_supplied, error, solver_calls, previous>>

---------------------------------------------------------------------------
(* Exact rational arithmetic                                               *)

RECURSIVE GCD(_, _)
GCD(a, b) == IF b = 0 THEN a ELSE GCD(b, a % b)

Abs(n) == IF n < 0 THEN -n ELSE n

\* n / d in lowest terms, d # 0
Rat(n, d) ==
    LET g == GCD(Abs(n), Abs(d))
        s == IF d < 0 THEN -1 ELSE 1
    IN  <<(s * n) \div g, (s * d) \div g>>

R(n) == <<n, 1>>

Zero == <<0, 1>>

RAdd(x, y) ==
    LET g == GCD(x[2], y[2])
    IN  Rat(x[1] * (y[2] \div g) + y[1] * (x[2] \div g), (x[2] \div g) * y[2])

RNeg(x) == <<-x[1], x[2]>>

RSub(x, y) == RAdd(x, RNeg(y))

RMul(x, y) ==
    LET g1 == GCD(Abs(x[1]), y[2])
        g2 == GCD(Abs(y[1]), x[2])
    IN  <<(x[1] \div g1) * (y[1] \div g2), (x[2] \div g2) * (y[2] \div g1)>>

\* x / y, y # 0
RDiv(x, y) ==
    RMul(x, IF y[1] < 0 THEN <<-y[2], -y[1]>> ELSE <<y[2], y[1]>>)

RLe(x, y) ==
    LET g == GCD(x[2], y[2])
    IN  x[1] * (y[2] \div g) <= y[1] * (x[2] \div g)

RGe(x, y) == RLe(y, x)

RLt(x, y) == ~RLe(y, x)

RMax(x, y) == IF RLe(x, y) THEN y ELSE x

\* numpy's float division: x / 0 is nan for x = 0 and +-inf otherwise
NaN == <<0, 0>>

NpDiv(x, y) ==
    IF y[1] # 0 THEN RDiv(x, y)
    ELSE IF x[1] = 0 THEN NaN
    ELSE IF x[1] > 0 THEN <<1, 0>> ELSE <<-1, 0>>

\* a finite number: neither None nor nan nor +-inf
IsNumber(x) == Len(x) = 2 /\ x[2] # 0

RECURSIVE RSum(_, _)
\* np.sum / cp.sum of the first n entries of s
RSum(s, n) == IF n = 0 THEN Zero ELSE RAdd(RSum(s, n - 1), s[n])

---------------------------------------------------------------------------
(* Parameters (lines 21-51)                                                *)

eff_b_ch == Rat(98, 100)
eff_b_disch == Rat(97, 100)
eff_b_sd == RSub(R(1), RDiv(Rat(125, 1000), R(24)))
UP_b == 470
lifetime_b == 10
SOC_max == Rat(10, 10)
SOC_min == Rat(0, 10)
eff_PV == Rat(205, 1000)
UP_PV == Rat(94, 100)
lifetime_PV == 25

\* The script fixes 8760 hours; the model keeps the horizon small.
hours_in_year == 2

Hours == 1 .. hours_in_year

\* Python's None, for a record, a number or a series, and for a string
NoValue == [none |-> TRUE]

NoNumber == <<>>

NoName == "None"

---------------------------------------------------------------------------
(* Inputs: the CSV profiles and the values written into lines 35-41        *)

DemandLevels == {0, 1, 11}

BaseDemands == {0, 1}

PeakHours == {1, hours_in_year}

\* a base load in every hour but one, the first or the last, which has a
\* load of its own
DemandProfiles ==
    {[t \in Hours |-> IF t = k THEN p ELSE b] :
        b \in BaseDemands, p \in DemandLevels, k \in PeakHours}

IrradianceLevels == {0, 1000}

\* sun in the first hour, none afterwards
IrradianceProfiles ==
    {[t \in Hours |-> IF t = 1 THEN g ELSE 0] : g \in IrradianceLevels}

ImportLimits == {0, 10}

AssetLimits == {[area |-> 0, cap |-> 0], [area |-> 75, cap |-> 50]}

MinCapacities == {0, 5}

Prices == {Rat(30, 100), R(50)}

---------------------------------------------------------------------------
(* The lattice of points of the decision space                             *)

StorageLevels == {0, 2}

FlowRules == {"tight", "idle", "importMax", "importZero", "lossless"}

\* line 64: P_PV = (G_irradiance * Area_PV * eff_PV) / 1000, hour t
P_PV(area, t) ==
    RDiv(RMul(RMul(R(G_irradiance[t]), area), eff_PV), R(1000))

\* what the storage gains over hour t beyond what self-discharge leaves
Gain(E, t) == RSub(E[t + 1], RMul(E[t], eff_b_sd))

ChargeFor(E, t, rule) ==
    LET g == Gain(E, t)
    IN  IF rule = "idle" \/ RLe(g, Zero) THEN Zero
        ELSE IF rule = "lossless" THEN g
        ELSE RDiv(g, eff_b_ch)

DischargeFor(E, t, rule) ==
    LET g == Gain(E, t)
    IN  IF rule = "idle" \/ RLe(Zero, g) THEN Zero
        ELSE IF rule = "lossless" THEN RNeg(g)
        ELSE RMul(RNeg(g), eff_b_disch)

ImportFor(E, area, t, rule) ==
    LET short == RSub(RAdd(R(P_dem[t]), ChargeFor(E, t, rule)),
                      RAdd(RDiv(DischargeFor(E, t, rule), eff_b_disch),
                           P_PV(area, t)))
    IN  IF rule = "importMax" THEN R(P_imp_max)
        ELSE IF rule = "importZero" THEN Zero
        ELSE RMax(Zero, short)

Point(E, area, cap, rule) ==
    [P_imp   |-> [t \in Hours |-> ImportFor(E, area, t, rule)],
     P_ch    |-> [t \in Hours |-> ChargeFor(E, t, rule)],
     P_disch |-> [t \in Hours |-> DischargeFor(E, t, rule)],
     E_b     |-> E,
     C_b     |-> cap,
     Area_PV |-> area]

AreaCandidates ==
    {Zero, R(Area_PV_max)} \cup
    {RDiv(R(P_dem[t] * 1000), RMul(R(G_irradiance[t]), eff_PV)) :
        t \in {u \in Hours : G_irradiance[u] > 0 /\ P_dem[u] > 0}}

CapacityCandidates == {R(l) : l \in StorageLevels} \cup {R(C_b_max)}

Candidates ==
    {Point([t \in 1 .. hours_in_year + 1 |-> R(L[t])], a, c, r) :
        L \in [1 .. hours_in_year + 1 -> StorageLevels],
        a \in AreaCandidates, c \in CapacityCandidates, r \in FlowRules}

---------------------------------------------------------------------------
(* The optimisation model (lines 53-91)                                    *)

\* line 67
cost_inv(x) ==
    RAdd(RDiv(RMul(x.C_b, R(UP_b)), R(lifetime_b)),
         RDiv(RMul(RMul(RMul(x.Area_PV, R(1000)), eff_PV), UP_PV),
              R(lifetime_PV)))

\* the operating cost left out of the objective
cost_op_Unpriced(x) == Zero

\* line 68
cost_op(x) == RSum([t \in Hours |-> RMul(x.P_imp[t], c_el)], hours_in_year)

\* line 69
cost(x) == RAdd(cost_inv(x), cost_op(x))

\* line 73 with the charging efficiency left out
StorageRecursion_LosslessCharge(x) ==
    \A t \in Hours :
        x.E_b[t + 1] =
            RSub(RAdd(RMul(x.E_b[t], eff_b_sd), x.P_ch[t]),
                 RDiv(x.P_disch[t], eff_b_disch))

\* line 73
StorageRecursion(x) ==
    \A t \in Hours :
        x.E_b[t + 1] =
            RSub(RAdd(RMul(x.E_b[t], eff_b_sd), RMul(x.P_ch[t], eff_b_ch)),
                 RDiv(x.P_disch[t], eff_b_disch))

\* line 74
DischargeLimit(x) == \A t \in Hours : RLe(x.P_disch[t], x.E_b[t])

\* line 75 with the capacity limit in place of the capacity variable
SocUpper_AgainstLimit(x) ==
    \A t \in Hours : RLe(x.E_b[t], RMul(SOC_max, R(C_b_max)))

\* line 75
SocUpper(x) == \A t \in Hours : RLe(x.E_b[t], RMul(SOC_max, x.C_b))

\* line 76
SocLower(x) == \A t \in Hours : RGe(x.E_b[t], RMul(SOC_min, x.C_b))

\* line 77 with the charging power left off the demand side
EnergyBalance_NoCharge(x) ==
    \A t \in Hours :
        RGe(RAdd(RAdd(RDiv(x.P_disch[t], eff_b_disch), x.P_imp[t]),
                 P_PV(x.Area_PV, t)),
            R(P_dem[t]))

\* line 77
EnergyBalance(x) ==
    \A t \in Hours :
        RGe(RAdd(RAdd(RDiv(x.P_disch[t], eff_b_disch), x.P_imp[t]),
                 P_PV(x.Area_PV, t)),
            RAdd(R(P_dem[t]), x.P_ch[t]))

\* line 78 closing on the last hour's start instead of the closing value
Periodicity_OffByOne(x) == x.E_b[hours_in_year] = x.E_b[1]

\* line 78
Periodicity(x) == x.E_b[hours_in_year + 1] = x.E_b[1]

\* line 79
StorageNonNegative(x) ==
    \A t \in 1 .. hours_in_year + 1 : RGe(x.E_b[t], Zero)

\* lines 80-81 without line 81
ImportBounds_NoMaximum(x) == \A t \in Hours : RGe(x.P_imp[t], Zero)

\* lines 80-81
ImportBounds(x) ==
    \A t \in Hours : RGe(x.P_imp[t], Zero) /\ RLe(x.P_imp[t], R(P_imp_max))

\* lines 82-83
FlowsNonNegative(x) ==
    \A t \in Hours : RGe(x.P_ch[t], Zero) /\ RGe(x.P_disch[t], Zero)

\* lines 84-85
CapacityBounds(x) == RGe(x.C_b, Zero) /\ RLe(x.C_b, R(C_b_max))

\* lines 86-87
AreaBounds(x) == RGe(x.Area_PV, Zero) /\ RLe(x.Area_PV, R(Area_PV_max))

\* lines 72-88: the point x satisfies every entry of the list
constraints(x) ==
    /\ CapacityBounds(x)
    /\ AreaBounds(x)
    /\ Periodicity(x)
    /\ StorageNonNegative(x)
    /\ SocUpper(x)
    /\ SocLower(x)
    /\ FlowsNonNegative(x)
    /\ ImportBounds(x)
    /\ DischargeLimit(x)
    /\ StorageRecursion(x)
    /\ EnergyBalance(x)


\* line 91: the points cp.Minimize(cost) is looked for among
Accepted == {x \in Candidates : constraints(x)}

\* a solver that stops at any accepted point
OptimalPoints_AnyAccepted == Accepted

\* lines 91-94: the points an exact solver may return as the optimum
OptimalPoints ==
    LET A == Accepted
        K == {cost(x) : x \in A}
        best == CHOOSE k \in K : \A j \in K : RLe(k, j)
    IN  IF A = {} THEN {} ELSE {x \in A : cost(x) = best}

\* np.sum(P_dem), lines 103 and 107
En_dem_year == RSum([t \in Hours |-> R(P_dem[t])], hours_in_year)

\* np.sum(P_imp.value), line 108
En_grid_year(x) == RSum(x.P_imp, hours_in_year)

\* line 109
SelfSufficiency(x) ==
    NpDiv(RSub(En_dem_year, En_grid_year(x)), En_dem_year)

---------------------------------------------------------------------------
(* The script                                                              *)

Init ==
    /\ pc = "build"
    /\ P_imp_max \in ImportLimits
    /\ \E a \in AssetLimits : Area_PV_max = a.area /\ C_b_max = a.cap
    /\ C_b_min \in MinCapacities
    /\ c_el \in Prices
    /\ P_dem \in DemandProfiles
    /\ G_irradiance \in IrradianceProfiles
    /\ status = NoName
    /\ value = NoValue
    /\ cost_value = NoNumber
    /\ LCOE = NoNumber
    /\ self_sufficiency = NoNumber
    /\ power_supplied = NoNumber
    /\ error = NoName
    /\ solver_calls = 0
    /\ previous = NoValue

\* lines 55-91: variables, objective, constraint list and problem are
\* constructed from the parameters as they are; nothing is validated
Build ==
    /\ pc = "build"
    /\ pc' = "solve"
    /\ UNCHANGED <<P_imp_max, Area_PV_max, C_b_max, C_b_min, c_el, P_dem,
                   G_irradiance, status, value, cost_value, LCOE,
                   self_sufficiency, power_supplied, error, solver_calls,
                   previous>>

\* line 94: problem.solve(...)
Solve ==
    /\ pc = "solve"
    /\ pc' = "report"
    /\ solver_calls' = solver_calls + 1
    /\ LET best == OptimalPoints
       IN  IF best = {}
           THEN /\ status' = "infeasible"
                /\ value' = NoValue
                /\ cost_value' = NoNumber
           ELSE \E x \in best :
                /\ status' = "optimal"
                /\ value' = x
                /\ cost_value' = cost(x)
    /\ UNCHANGED <<P_imp_max, Area_PV_max, C_b_max, C_b_min, c_el, P_dem,
                   G_irradiance, LCOE, self_sufficiency, power_supplied,
                   error, previous>>

\* lines 96-113
Report ==
    /\ pc = "report"
    /\ pc' = "plot"
    /\ IF status = "optimal"
       THEN /\ LCOE' = NpDiv(cost_value, En_dem_year)
            /\ self_sufficiency' = SelfSufficiency(value)
       ELSE UNCHANGED <<LCOE, self_sufficiency>>
    /\ UNCHANGED <<P_imp_max, Area_PV_max, C_b_max, C_b_min, c_el, P_dem,
                   G_irradiance, status, value, cost_value, power_supplied,
                   error, solver_calls, previous>>

\* lines 118-145: the two input plots read P_dem and G_irradiance only
PlotInputs ==
    /\ pc = "plot"
    /\ pc' = "results"
    /\ UNCHANGED <<P_imp_max, Area_PV_max, C_b_max, C_b_min, c_el, P_dem,
                   G_irradiance, status, value, cost_value, LCOE,
                   self_sufficiency, power_supplied, error, solver_calls,
                   previous>>

\* lines 150-173: every .value is read whatever the status was; with no
\* values set, None + None at line 152 raises TypeError and the script ends
ExtractResults ==
    /\ pc = "results"
    /\ IF value = NoValue
       THEN /\ error' = "TypeError"
            /\ pc' = "crashed"
            /\ UNCHANGED power_supplied
       ELSE /\ power_supplied' =
                   [t \in Hours |->
                       RSub(RAdd(RAdd(value.P_disch[t], value.P_imp[t]),
                                 P_PV(value.Area_PV, t)),
                            value.P_ch[t])]
            /\ pc' = "done"
            /\ UNCHANGED error
    /\ UNCHANGED <<P_imp_max, Area_PV_max, C_b_max, C_b_min, c_el, P_dem,
                   G_irradiance, status, value, cost_value, LCOE,
                   self_sufficiency, solver_calls, previous>>

\* line 41 edited and the script run again: the same profiles and design
\* constraints, another import price
Rerun ==
    /\ pc \in {"done", "crashed"}
    /\ previous = NoValue
    /\ previous' = [c_el |-> c_el, status |-> status, cost |-> cost_value,
                    En_grid |-> IF value = NoValue THEN NoNumber
                                ELSE En_grid_year(value)]
    /\ c_el' \in Prices \ {c_el}
    /\ pc' = "build"
    /\ status' = NoName
    /\ value' = NoValue
    /\ cost_value' = NoNumber
    /\ LCOE' = NoNumber
    /\ self_sufficiency' = NoNumber
    /\ power_supplied' = NoNumber
    /\ error' = NoName
    /\ solver_calls' = 0
    /\ UNCHANGED <<P_imp_max, Area_PV_max, C_b_max, C_b_min, P_dem,
                   G_irradiance>>

Next == Build \/ Solve \/ Report \/ PlotInputs \/ ExtractResults \/ Rerun

Spec == Init /\ [][Next]_vars


---------------------------------------------------------------------------
(* Properties                                                              *)

Built == pc = "solve"

Reported == pc \in {"plot", "results", "done", "crashed"}

RECURSIVE Trajectory(_, _, _, _)
\* the stored energy after n hours, from its start value and the charge and
\* discharge series: charge times its efficiency, discharge over its own
Trajectory(e0, ch, disch, n) ==
    IF n = 0 THEN e0
    ELSE RSub(RAdd(RMul(Trajectory(e0, ch, disch, n - 1), eff_b_sd),
                   RMul(ch[n], eff_b_ch)),
              RDiv(disch[n], eff_b_disch))

\* C1: every point the built constraint list accepts has, at every index,
\* the stored energy that the recursion gives from E_b[0] and the charge
\* and discharge series.
C1_StorageRecursion ==
    Built =>
        \A x \in Candidates :
            constraints(x) =>
                \A n \in 0 .. hours_in_year :
                    x.E_b[n + 1] = Trajectory(x.E_b[1], x.P_ch, x.P_disch, n)

C1_Witness ==
    /\ Built
    /\ \E x \in Candidates :
        /\ constraints(x)
        /\ \E t \in Hours : RLt(Zero, x.P_ch[t])
        /\ \E t \in Hours : RLt(Zero, x.P_disch[t])
        /\ RLt(Zero, x.E_b[1])

\* C2: every point the built constraint list accepts covers, in every hour,
\* demand plus charging by discharge over its efficiency plus import plus
\* generation, generation being irradiance * area * eff_PV / 1000.
C2_EnergyBalance ==
    Built =>
        \A x \in Candidates :
            constraints(x) =>
                \A t \in Hours :
                    LET generation ==
                            RDiv(RMul(R(G_irradiance[t]),
                                      RMul(x.Area_PV, eff_PV)), R(1000))
                        supply ==
                            RAdd(RDiv(x.P_disch[t], eff_b_disch),
                                 RAdd(x.P_imp[t], generation))
                    IN  RLe(Zero, RSub(RSub(supply, R(P_dem[t])), x.P_ch[t]))

C2_Witness ==
    /\ Built
    /\ \E x \in Candidates :
        /\ constraints(x)
        /\ \E t \in Hours : RLt(Zero, x.P_ch[t]) /\ RLt(Zero, P_PV(x.Area_PV, t))
        /\ \E t \in Hours : RLt(Zero, x.P_disch[t]) /\ P_dem[t] > 0

\* C3: an optimal solution ends the horizon with the stored energy it
\* started with.
C3_Periodicity ==
    status = "optimal" => value.E_b[hours_in_year + 1] = value.E_b[1]

C3_Witness ==
    /\ status = "optimal"
    /\ RLt(Zero, value.E_b[1])
    /\ \E t \in Hours : value.E_b[t] = Zero
    /\ value.E_b[hours_in_year + 1] = value.E_b[1]

\* C4: in an optimal solution the stored energy stays between
\* SOC_min * capacity and SOC_max * capacity in every hour, and, SOC_min
\* being 0 and SOC_max 1, between 0 and the capacity at every index of the
\* series, the closing one included.
C4_StorageEnvelope ==
    status = "optimal" =>
        /\ \A t \in Hours :
            /\ RLe(RMul(SOC_min, value.C_b), value.E_b[t])
            /\ RLe(value.E_b[t], RMul(SOC_max, value.C_b))
        /\ (SOC_min = Zero /\ SOC_max = R(1)) =>
                \A t \in 1 .. hours_in_year + 1 :
                    RLe(Zero, value.E_b[t]) /\ RLe(value.E_b[t], value.C_b)

C4_Witness ==
    /\ status = "optimal"
    /\ RLt(Zero, value.C_b)
    /\ value.E_b[hours_in_year + 1] = value.C_b

\* C5: every point the built constraint list accepts keeps import between
\* 0 and P_imp_max in every hour, the area between 0 and Area_PV_max, and
\* the capacity between C_b_min and C_b_max (stated for design bounds that
\* are not inverted, so that such a capacity exists).
C5_DesignBounds ==
    (Built /\ C_b_min <= C_b_max) =>
        \A x \in Candidates :
            constraints(x) =>
                /\ \A t \in Hours :
                    RLe(Zero, x.P_imp[t]) /\ RLe(x.P_imp[t], R(P_imp_max))
                /\ RLe(Zero, x.Area_PV) /\ RLe(x.Area_PV, R(Area_PV_max))
                /\ RLe(R(C_b_min), x.C_b) /\ RLe(x.C_b, R(C_b_max))

\* C6: a solve that ends with another status than optimal leaves every
\* value and derived metric absent, and the script goes on; reading a
\* result series then fails with ResultUnavailableError and nothing else.
C6_NonOptimalOutcome ==
    status \notin {NoName, "optimal"} =>
        /\ value = NoValue
        /\ cost_value = NoNumber
        /\ LCOE = NoNumber
        /\ self_sufficiency = NoNumber
        /\ power_supplied = NoNumber
        /\ error \in {NoName, "ResultUnavailableError"}

\* the series have the horizon's length and no design bound is negative or
\* inverted
ConfigurationValid ==
    /\ Len(P_dem) = hours_in_year
    /\ Len(G_irradiance) = hours_in_year
    /\ P_imp_max >= 0
    /\ Area_PV_max >= 0
    /\ C_b_min >= 0
    /\ C_b_max >= C_b_min

\* C7: with a malformed configuration nothing is built and the solver is
\* never called: the run ends in a ConfigurationError.
C7_ConfigurationError ==
    ~ConfigurationValid =>
        /\ solver_calls = 0
        /\ pc \in {"build", "crashed"}
        /\ pc = "crashed" => error = "ConfigurationError"

C9_InfeasibilityDetected ==
    (/\ P_imp_max = 0
     /\ C_b_max = 0
     /\ Area_PV_max = 0
     /\ \E t \in Hours : P_dem[t] # 0) =>
        /\ Built => Accepted = {}
        /\ status \in {NoName, "infeasible"}

C9_Witness ==
    /\ P_imp_max = 0
    /\ C_b_max = 0
    /\ Area_PV_max = 0
    /\ \E t \in Hours : P_dem[t] # 0
    /\ status = "infeasible"

TwoOptimalRuns ==
    /\ previous # NoValue
    /\ previous.status = "optimal"
    /\ status = "optimal"

\* C10: of two optimal runs that differ in the import price only, the one
\* with the higher price has no lower cost and no higher total import.
C10_PriceMonotonicity ==
    TwoOptimalRuns =>
        /\ RLt(previous.c_el, c_el) =>
            /\ RLe(previous.cost, cost_value)
            /\ RLe(En_grid_year(value), previous.En_grid)
        /\ RLt(c_el, previous.c_el) =>
            /\ RLe(cost_value, previous.cost)
            /\ RLe(previous.En_grid, En_grid_year(value))

C10_Witness ==
    /\ TwoOptimalRuns
    /\ RLt(previous.c_el, c_el)
    /\ RLt(previous.cost, cost_value)
    /\ RLt(En_grid_year(value), previous.En_grid)

=============================================================================
